---- MODULE Spec2Model ----
(***************************************************************************)
(* Knowledge-graph construction (Graph_Build.py) and embedding backfill    *)
(* (Tools_Retriever.py / app.py initialize_graphrag) of the news           *)
(* knowledge-graph repository, and the search handler of app.py.           *)
(*                                                                         *)
(* Text is a sequence of one-character strings.  A missing cell (pandas    *)
(* NaN) of a text column is the one-element sequence NaNText; a missing    *)
(* cell of an atomic column (title, source, ...) is the string NaN.        *)
(***************************************************************************)
EXTENDS Integers, Sequences, FiniteSets, TLC

VARIABLES
    graph,       \* the Neo4j database: nodes per label, relationships, id counter
    pc,          \* position of Graph_Build.main / build_graph_from_dataframe
    nrows,       \* len(df): number of rows of the batch
    idx,         \* number of rows df.iterrows() has yielded so far
    row,         \* the row being processed (NoRow between rows)
    chunk_size,  \* build_graph_from_dataframe parameter
    overlap,     \* build_graph_from_dataframe parameter
    out,         \* what the ingest program has printed, in order
    hist,        \* history: per article_id, what the ingest has committed for it
    bf,          \* the backfill pass of initialize_graphrag: position, records, index
    ct,          \* a stand-alone call of chunk_text: arguments and result
    sr           \* a request to app.search: the service's state, the answer, the outcome

vars == <<graph, pc, nrows, idx, row, chunk_size, overlap, out, hist, bf, ct, sr>>

-----------------------------------------------------------------------------
(* Bounds of the model *)

MaxLen == 4          \* longest text handed to a stand-alone chunk_text call
MaxChunk == 3        \* largest chunk_size / overlap of a stand-alone call
MaxRows == 2         \* largest batch (rows of the dataframe)
MaxPasses == 2       \* backfill passes (starts of the search service)

-----------------------------------------------------------------------------
(* Values *)

NaN == "NaN"
NaNText == <<"NaN">>
Whitespace == {" ", "\n"}
Chars == {"a", "b", " "}

\* pd.isna on an atomic cell and on a text cell
isna(v) == v = NaN
isnaText(t) == t = NaNText

\* str(x) of Python on the cell values of the model: a string is itself,
\* a missing cell (float nan) prints as "nan".
PyStr(v) == IF v = NaN THEN "nan" ELSE v
PyStrText(t) == IF t = NaNText THEN <<"n", "a", "n">> ELSE t

\* str(i) for a non-negative integer, as a sequence of digit characters.
DigitChar(d) == <<"0", "1", "2", "3", "4", "5", "6", "7", "8", "9">>[d + 1]

RECURSIVE IntStr(_)
IntStr(i) == IF i < 10 THEN <<DigitChar(i)>>
             ELSE IntStr(i \div 10) \o <<DigitChar(i % 10)>>

-----------------------------------------------------------------------------
(* chunk_text *)

\* text[i:j] of Python for 0 <= i, 0 <= j (0-based, j exclusive, clipped).
Slice(text, i, j) ==
    LET hi == IF j < Len(text) THEN j ELSE Len(text)
    IN  IF i >= hi THEN <<>> ELSE SubSeq(text, i + 1, hi)

RECURSIVE LStrip(_)
LStrip(s) == IF s = <<>> THEN <<>>
             ELSE IF Head(s) \in Whitespace THEN LStrip(Tail(s)) ELSE s

RECURSIVE RStrip(_)
RStrip(s) == IF s = <<>> THEN <<>>
             ELSE IF s[Len(s)] \in Whitespace THEN RStrip(SubSeq(s, 1, Len(s) - 1))
             ELSE s

\* str.strip()
Strip(s) == RStrip(LStrip(s))

\* a range that stops before a last, shorter window
RECURSIVE RangeFromShort(_, _, _)
RangeFromShort(i, n, step) ==
    IF step > 0
    THEN IF i + step <= n THEN <<i>> \o RangeFromShort(i + step, n, step) ELSE <<>>
    ELSE <<>>

\* list(range(0, n, step)) for step /= 0
RECURSIVE RangeFrom(_, _, _)
RangeFrom(i, n, step) ==
    IF step > 0
    THEN IF i < n THEN <<i>> \o RangeFrom(i + step, n, step) ELSE <<>>
    ELSE <<>>    \* a negative step from 0 up to n >= 0 yields nothing

\* the loop body of chunk_text over the window starts
RECURSIVE ChunkLoop(_, _, _)
ChunkLoop(text, starts, size) ==
    IF starts = <<>> THEN <<>>
    ELSE LET chunk == Slice(text, Head(starts), Head(starts) + size)
             rest  == ChunkLoop(text, Tail(starts), size)
         IN  IF Strip(chunk) /= <<>> THEN <<Strip(chunk)>> \o rest ELSE rest

\* the window advancing by chunk_size, the overlap forgotten
chunk_text_no_overlap(text, size, ov) ==
    IF isnaText(text) \/ text = <<>>
    THEN [raised |-> FALSE, chunks |-> <<>>]
    ELSE [raised |-> FALSE,
          chunks |-> ChunkLoop(PyStrText(text),
                               RangeFrom(0, Len(PyStrText(text)), size), size)]

\* chunk_text(text, chunk_size, overlap): raised = TRUE is the ValueError of
\* range() with a zero step.
chunk_text(text, size, ov) ==
    IF isnaText(text) \/ text = <<>>
    THEN [raised |-> FALSE, chunks |-> <<>>]
    ELSE IF size - ov = 0
    THEN [raised |-> TRUE, chunks |-> <<>>]
    ELSE [raised |-> FALSE,
          chunks |-> ChunkLoop(PyStrText(text),
                               RangeFrom(0, Len(PyStrText(text)), size - ov), size)]

-----------------------------------------------------------------------------
(* The graph database *)

EmptyGraph ==
    [articles |-> {}, contents |-> {}, media |-> {}, categories |-> {}, rels |-> {}]

\* element ids in use, and the id the database gives the next node or
\* relationship it creates (ids of deleted elements are given out again)
UsedIds(G) ==
    {x.id : x \in G.articles} \cup {x.id : x \in G.contents} \cup
    {x.id : x \in G.media} \cup {x.id : x \in G.categories} \cup
    {x.id : x \in G.rels}

FreshId(G) ==
    IF UsedIds(G) = {} THEN 1
    ELSE 1 + CHOOSE m \in UsedIds(G) : \A k \in UsedIds(G) : k <= m

\* f"{article_id}_chunk_{i}"
ContentId(article_id, i) == article_id \o <<"_chunk_">> \o IntStr(i)

ArticleNodes(G, article_id) == {a \in G.articles : a.article_id = article_id}
ContentNodes(G, content_id) == {c \in G.contents : c.content_id = content_id}
MediaNodes(G, name) == {m \in G.media : m.name = name}
CategoryNodes(G, name) == {c \in G.categories : c.name = name}

\* CREATE in place of MERGE: a relationship for every matched pair
RECURSIVE CreateRels(_, _, _)
CreateRels(G, type, pairs) ==
    IF pairs = {} THEN G
    ELSE LET p == CHOOSE q \in pairs : TRUE
         IN  CreateRels([G EXCEPT !.rels = @ \cup {[id |-> FreshId(G), type |-> type,
                                                     from |-> p[1], to |-> p[2]]}],
                        type, pairs \ {p})

\* MERGE (x)-[:type]->(y) for every matched pair (from, to): a relationship
\* is created for each pair that has none of this type yet.
RECURSIVE MergeRels(_, _, _)
MergeRels(G, type, pairs) ==
    LET missing == {p \in pairs :
                      ~ \E r \in G.rels : r.type = type /\ r.from = p[1] /\ r.to = p[2]}
    IN  IF missing = {} THEN G
        ELSE LET p == CHOOSE q \in missing : TRUE
             IN  MergeRels([G EXCEPT !.rels = @ \cup {[id |-> FreshId(G), type |-> type,
                                                      from |-> p[1], to |-> p[2]]}],
                           type, missing \ {p})

\* MERGE (a:Article {article_id: $article_id})
MergeArticle(G, article_id) ==
    IF ArticleNodes(G, article_id) /= {} THEN G
    ELSE [G EXCEPT !.articles = @ \cup {[id |-> FreshId(G), article_id |-> article_id,
                                         title |-> NaN, url |-> NaN,
                                         published_date |-> NaN]}]

\* the properties set only when the MERGE creates the node (ON CREATE SET)
create_article_node_on_create(G, article_data) ==
    IF ArticleNodes(G, article_data.article_id) /= {} THEN G
    ELSE [G EXCEPT !.articles = @ \cup {[id |-> FreshId(G),
                                         article_id |-> article_data.article_id,
                                         title |-> article_data.title,
                                         url |-> article_data.url,
                                         published_date |-> article_data.published_date]}]

\* create_article_node: MERGE the Article, SET title, url, published_date
create_article_node(G, article_data) ==
    LET G1 == MergeArticle(G, article_data.article_id)
    IN  [G1 EXCEPT !.articles =
           {IF a.article_id = article_data.article_id
            THEN [a EXCEPT !.title = article_data.title,
                           !.url = article_data.url,
                           !.published_date = article_data.published_date]
            ELSE a : a \in @}]

\* MERGE (c:Content {content_id: $content_id}); a created node has no
\* embedding (the empty set; a stored vector is a one-element set).
MergeContent(G, content_id) ==
    IF ContentNodes(G, content_id) /= {} THEN G
    ELSE [G EXCEPT !.contents = @ \cup {[id |-> FreshId(G), content_id |-> content_id,
                                         chunk |-> <<>>, article_id |-> <<>>,
                                         title |-> NaN, url |-> NaN,
                                         published_date |-> NaN, chunk_index |-> 0,
                                         embedding |-> {}]}]

\* the iteration with a SET that clears the embedding along with the chunk
ContentUpsertClearing(G, article_id, i, chunk, article_data) ==
    LET content_id == ContentId(article_id, i)
        G1 == MergeContent(G, content_id)
        G2 == [G1 EXCEPT !.contents =
                 {IF c.content_id = content_id
                  THEN [c EXCEPT !.chunk = chunk,
                                 !.article_id = article_id,
                                 !.title = article_data.title,
                                 !.url = article_data.url,
                                 !.published_date = article_data.published_date,
                                 !.chunk_index = i,
                                 !.embedding = {}]
                  ELSE c : c \in @}]
    IN  MergeRels(G2, "HAS_CHUNK",
                  {<<a.id, c.id>> : a \in ArticleNodes(G2, article_id),
                                    c \in ContentNodes(G2, content_id)})

\* one iteration of the loop of create_content_nodes (0-based index i)
ContentUpsert(G, article_id, i, chunk, article_data) ==
    LET content_id == ContentId(article_id, i)
        G1 == MergeContent(G, content_id)
        G2 == [G1 EXCEPT !.contents =
                 {IF c.content_id = content_id
                  THEN [c EXCEPT !.chunk = chunk,
                                 !.article_id = article_id,
                                 !.title = article_data.title,
                                 !.url = article_data.url,
                                 !.published_date = article_data.published_date,
                                 !.chunk_index = i]
                  ELSE c : c \in @}]
    IN  MergeRels(G2, "HAS_CHUNK",
                  {<<a.id, c.id>> : a \in ArticleNodes(G2, article_id),
                                    c \in ContentNodes(G2, content_id)})

RECURSIVE ContentLoop(_, _, _, _, _)
ContentLoop(G, article_id, content_chunks, i, article_data) ==
    IF i >= Len(content_chunks) THEN G
    ELSE ContentLoop(ContentUpsert(G, article_id, i, content_chunks[i + 1], article_data),
                     article_id, content_chunks, i + 1, article_data)

\* the loop after a removal of the Content nodes the article had (DETACH
\* DELETE of the old fragments before the new ones are written)
create_content_nodes_replacing(G, article_id, content_chunks, article_data) ==
    LET old == {c.id : c \in {x \in G.contents : x.article_id = article_id}}
        G0 == [G EXCEPT !.contents = {c \in @ : c.id \notin old},
                        !.rels = {r \in @ : r.to \notin old}]
    IN  ContentLoop(G0, article_id, content_chunks, 0, article_data)

create_content_nodes(G, article_id, content_chunks, article_data) ==
    ContentLoop(G, article_id, content_chunks, 0, article_data)

\* CREATE in place of MERGE
CreateMedia(G, source) ==
    [G EXCEPT !.media = @ \cup {[id |-> FreshId(G), name |-> source]}]

\* MERGE (m:Media {name: $source})
MergeMedia(G, source) ==
    IF MediaNodes(G, source) /= {} THEN G
    ELSE [G EXCEPT !.media = @ \cup {[id |-> FreshId(G), name |-> source]}]

create_media_node_and_relationship(G, article_id, source) ==
    IF isna(source) \/ source = "" THEN G
    ELSE LET G1 == MergeMedia(G, source)
         IN  MergeRels(G1, "PUBLISHED",
                       {<<m.id, a.id>> : m \in MediaNodes(G1, source),
                                         a \in ArticleNodes(G1, article_id)})

\* MERGE (cat:Category {name: $category})
MergeCategory(G, category) ==
    IF CategoryNodes(G, category) /= {} THEN G
    ELSE [G EXCEPT !.categories = @ \cup {[id |-> FreshId(G), name |-> category]}]

create_category_node_and_relationship(G, article_id, category) ==
    IF isna(category) \/ category = "" THEN G
    ELSE LET G1 == MergeCategory(G, category)
         IN  MergeRels(G1, "BELONGS_TO",
                       {<<a.id, c.id>> : a \in ArticleNodes(G1, article_id),
                                         c \in CategoryNodes(G1, category)})

\* MATCH (n) DETACH DELETE n
clear_database(G) ==
    [G EXCEPT !.articles = {}, !.contents = {}, !.media = {}, !.categories = {},
              !.rels = {}]

-----------------------------------------------------------------------------
(* Inputs *)

ArticleIds == {<<"A1">>, <<"A2">>}

\* (title, url, published_date) of a row; the second has no date cell
Metas == {[title |-> "T1", url |-> "U1", published_date |-> "D1"],
          [title |-> "T2", url |-> "U2", published_date |-> NaN]}

\* content cells: none, two chunks, one chunk, and a body with a blank window
Bodies == {NaNText, <<"a", "b", " ", "a">>, <<"b">>,
           <<"a", " ", " ", " ", " ", "b">>}

\* (source, category) of a row: no source cell and an empty category, or both
Tags == {[source |-> NaN, category |-> ""], [source |-> "M1", category |-> "C1"]}

Rows == {[article_id |-> i, title |-> m.title, url |-> m.url,
          published_date |-> m.published_date, content |-> b,
          source |-> t.source, category |-> t.category] :
            i \in ArticleIds, m \in Metas, b \in Bodies, t \in Tags}

NoRow == [article_id |-> <<>>, title |-> NaN, url |-> NaN, published_date |-> NaN,
          content |-> NaNText, source |-> NaN, category |-> NaN]

\* line 130: the default chunk_size and overlap
DefaultChunkSize == 500
DefaultOverlap == 50

\* (chunk_size, overlap) a caller of build_graph_from_dataframe passes: the
\* defaults, a small valid pair, and the two kinds of pair with
\* chunk_size - overlap <= 0
Configs == {<<DefaultChunkSize, DefaultOverlap>>, <<3, 1>>, <<2, 2>>, <<1, 2>>}

\* bodies at the scale of the defaults (1200, 451 and 450 characters)
LongBodies == {[i \in 1..1200 |-> "a"],
               [i \in 1..451 |-> IF i = 451 THEN " " ELSE "b"],
               [i \in 1..450 |-> "b"]}

LongRows == {[article_id |-> <<"A1">>, title |-> "T1", url |-> "U1",
              published_date |-> "D1", content |-> b, source |-> "M1",
              category |-> "C1"] : b \in LongBodies}

\* the rows a batch is drawn from under a given chunk_size
RowsFor(size) == IF size = DefaultChunkSize THEN LongRows ELSE Rows

\* lines 136-141: the article_data dictionary of a row
ArticleData(r) ==
    [article_id |-> r.article_id, title |-> r.title, url |-> r.url,
     published_date |-> PyStr(r.published_date)]

NoData == [article_id |-> <<>>, title |-> NaN, url |-> NaN, published_date |-> NaN]

\* line 147: the row has a usable content cell
HasContent(r) == ~ isnaText(r.content) /\ r.content /= <<>>

\* the four upserts of one row when nothing raises (lines 143-157)
IngestRow(G, r, size, ov) ==
    LET d   == ArticleData(r)
        res == chunk_text(r.content, size, ov)
        G1  == create_article_node(G, d)
        G2  == IF HasContent(r) /\ res.chunks /= <<>>
               THEN create_content_nodes(G1, r.article_id, res.chunks, d) ELSE G1
        G3  == create_media_node_and_relationship(G2, r.article_id, r.source)
    IN  IF HasContent(r) /\ res.raised THEN G1
        ELSE create_category_node_and_relationship(G3, r.article_id, r.category)

\* a database left by an earlier run of the ingest
SeedRow == [article_id |-> <<"A1">>, title |-> "T0", url |-> "U0",
            published_date |-> "D0", content |-> <<"a", "a", "a", "a", "a">>,
            source |-> "M0", category |-> "C0"]
SeedGraph == IngestRow(EmptyGraph, SeedRow, 2, 0)

-----------------------------------------------------------------------------
(* History (not program state).  art[i]: the article_data of the last      *)
(* committed create_article_node for article_id i and of the one before,   *)
(* their number (counted up to 2), the number of committed                 *)
(* create_content_nodes for i (counted up to 2), and the body and chunk    *)
(* list of the last one.  last: the last row all of whose steps committed, *)
(* if no other row was read since.  repeats: the row before it was the     *)
(* same row and committed fully too.                                       *)

NoHist == [data |-> NoData, prev |-> NoData, upserts |-> 0,
           commits |-> 0, body |-> <<>>, chunks |-> <<>>]

HistInit == [art |-> [i \in ArticleIds |-> NoHist], last |-> NoRow, repeats |-> FALSE]

-----------------------------------------------------------------------------
(* Graph_Build.main and build_graph_from_dataframe *)

Emit(m, k) == out' = Append(out, [msg |-> m, idx |-> k])

\* a step of the ingest: a backfill pass of the search service that runs or
\* has run is no longer one without a concurrent ingest
IngestIdle ==
    /\ bf' = [bf EXCEPT !.clean = FALSE, !.quiet = FALSE]
    /\ UNCHANGED <<ct, sr>>

\* the except clause leaving the loop (break in place of continue)
RowErrorBreaks ==
    /\ Emit("row_error", idx - 1)
    /\ pc' = "done"
    /\ row' = NoRow

\* lines 163-165: the except clause: print the row's index, continue
RowError ==
    /\ Emit("row_error", idx - 1)
    /\ pc' = "loop"
    /\ row' = NoRow

\* history after a step of the current row raised
HistFailed(h) == [h EXCEPT !.last = NoRow, !.repeats = FALSE]

\* line 196: session.execute_write(clear_database)
ClearDatabase ==
    /\ pc = "clear"
    /\ \E fails \in BOOLEAN :
         IF fails
         THEN /\ pc' = "aborted"
              /\ UNCHANGED graph
         ELSE /\ pc' = "constraints"
              /\ graph' = clear_database(graph)
    /\ Emit("db_init", 0)
    /\ UNCHANGED <<nrows, idx, row, chunk_size, overlap, hist>>
    /\ IngestIdle

\* line 197: session.execute_write(create_constraints), then line 200
CreateConstraints ==
    /\ pc = "constraints"
    /\ \E fails \in BOOLEAN :
         IF fails
         THEN /\ pc' = "aborted"
              /\ UNCHANGED out
         ELSE /\ pc' = "loop"
              /\ Emit("build_start", 0)
    /\ UNCHANGED <<graph, nrows, idx, row, chunk_size, overlap, hist>>
    /\ IngestIdle

\* line 132: df.iterrows() yields the next row, one of the rows S
NextRowFrom(S) ==
    /\ pc = "loop"
    /\ idx < nrows
    /\ \E r \in S : row' = r
    /\ idx' = idx + 1
    /\ pc' = "article"
    /\ UNCHANGED <<graph, nrows, chunk_size, overlap, out, hist>>
    /\ IngestIdle

NextRow == NextRowFrom(RowsFor(chunk_size))

\* line 132 exhausted, then line 202
LoopEnd ==
    /\ pc = "loop"
    /\ idx = nrows
    /\ pc' = "done"
    /\ Emit("build_done", 0)
    /\ UNCHANGED <<graph, nrows, idx, row, chunk_size, overlap, hist>>
    /\ IngestIdle

\* lines 134-144
ArticleStep ==
    /\ pc = "article"
    /\ \E fails \in BOOLEAN :
         IF fails
         THEN /\ RowError
              /\ hist' = HistFailed(hist)
              /\ UNCHANGED graph
         ELSE /\ graph' = create_article_node(graph, ArticleData(row))
              /\ hist' = [hist EXCEPT
                            !.art[row.article_id].prev = hist.art[row.article_id].data,
                            !.art[row.article_id].data = ArticleData(row),
                            !.art[row.article_id].upserts = IF @ < 2 THEN @ + 1 ELSE @]
              /\ pc' = "content"
              /\ UNCHANGED <<row, out>>
    /\ UNCHANGED <<nrows, idx, chunk_size, overlap>>
    /\ IngestIdle

\* lines 147-150
ContentStep ==
    /\ pc = "content"
    /\ LET res == chunk_text(row.content, chunk_size, overlap)
       IN  IF ~ HasContent(row)
           THEN /\ pc' = "media"
                /\ UNCHANGED <<graph, row, out, hist>>
           ELSE IF res.raised
           THEN /\ RowError
                /\ hist' = HistFailed(hist)
                /\ UNCHANGED graph
           ELSE IF res.chunks = <<>>
           THEN /\ pc' = "media"
                /\ UNCHANGED <<graph, row, out, hist>>
           ELSE \E fails \in BOOLEAN :
                  IF fails
                  THEN /\ RowError
                       /\ hist' = HistFailed(hist)
                       /\ UNCHANGED graph
                  ELSE /\ graph' = create_content_nodes(graph, row.article_id,
                                                        res.chunks, ArticleData(row))
                       /\ hist' = [hist EXCEPT
                                     !.art[row.article_id].body = row.content,
                                     !.art[row.article_id].chunks = res.chunks,
                                     !.art[row.article_id].commits =
                                        IF @ < 2 THEN @ + 1 ELSE @]
                       /\ pc' = "media"
                       /\ UNCHANGED <<row, out>>
    /\ UNCHANGED <<nrows, idx, chunk_size, overlap>>
    /\ IngestIdle

\* lines 153-154
MediaStep ==
    /\ pc = "media"
    /\ \E fails \in BOOLEAN :
         IF fails
         THEN /\ RowError
              /\ hist' = HistFailed(hist)
              /\ UNCHANGED graph
         ELSE /\ graph' = create_media_node_and_relationship(graph, row.article_id,
                                                             row.source)
              /\ pc' = "category"
              /\ UNCHANGED <<row, out, hist>>
    /\ UNCHANGED <<nrows, idx, chunk_size, overlap>>
    /\ IngestIdle

ProgressEvery == 10

\* lines 156-161
CategoryStep ==
    /\ pc = "category"
    /\ \E fails \in BOOLEAN :
         IF fails
         THEN /\ RowError
              /\ hist' = HistFailed(hist)
              /\ UNCHANGED graph
         ELSE /\ graph' = create_category_node_and_relationship(graph, row.article_id,
                                                                row.category)
              /\ hist' = [hist EXCEPT !.last = row, !.repeats = (hist.last = row)]
              /\ pc' = "loop"
              /\ row' = NoRow
              /\ IF idx % ProgressEvery = 0
                 THEN Emit("progress", idx)
                 ELSE UNCHANGED out
    /\ UNCHANGED <<nrows, idx, chunk_size, overlap>>
    /\ IngestIdle

IngestNext ==
    \/ ClearDatabase
    \/ CreateConstraints
    \/ NextRow
    \/ LoopEnd
    \/ ArticleStep
    \/ ContentStep
    \/ MediaStep
    \/ CategoryStep

BfInit == [pc |-> "idle", records |-> <<>>, i |-> 0, passes |-> 0, clean |-> FALSE,
           quiet |-> FALSE, failed |-> {}, index |-> "none"]
CtInit == [text |-> <<>>, chunk_size |-> 1, overlap |-> 0, called |-> FALSE,
           result |-> [raised |-> FALSE, chunks |-> <<>>]]

\* no request to app.search
NoOutcome == [kind |-> "none", status |-> 0, returned |-> [t |-> "null"],
              sections |-> <<>>, sources |-> <<>>]
SrInit == [pc |-> "idle", rag |-> FALSE, raises |-> FALSE, answer |-> "",
           doc |-> [t |-> "null"], outcome |-> NoOutcome]

Init ==
    /\ graph \in {EmptyGraph, SeedGraph}
    /\ pc = "clear"
    /\ nrows \in 0..MaxRows
    /\ idx = 0
    /\ row = NoRow
    /\ \E cfg \in Configs : chunk_size = cfg[1] /\ overlap = cfg[2]
    /\ out = <<>>
    /\ hist = HistInit
    /\ bf = BfInit
    /\ ct = CtInit
    /\ sr = SrInit

Next == IngestNext

Spec == Init /\ [][Next]_vars

-----------------------------------------------------------------------------
(* The embedding backfill of initialize_graphrag (Tools_Retriever.py lines  *)
(* 71-112; app.py lines 103-147 is the same code).                          *)
(*                                                                         *)
(* bf.pc: idle (service not started), loop (inside the for loop over the   *)
(* records), index (before create_vector_index), ready (initialized).      *)
(* bf.clean is history: the pass that runs or ran last had no raise and no *)
(* ingest step since it started.  bf.quiet: no ingest step since it        *)
(* started.  bf.failed: the ids of the records whose iteration raised in   *)
(* it.  bf.index: how create_vector_index ended (none: not called yet).    *)

DIMENSION == 1536

\* the lengths of vector the embedding service may return
EmbedDims == {DIMENSION, DIMENSION - 1}

\* embedder.embed_query(text): a vector, kept as its length and its text
Vector(text, dim) == [dim |-> dim, of |-> text]

\* the records of the query, as a list in id order
RECURSIVE RecordList(_)
RecordList(S) ==
    IF S = {} THEN <<>>
    ELSE LET c == CHOOSE x \in S : \A y \in S : x.id <= y.id
         IN  <<[id |-> c.id, text |-> c.chunk]>> \o RecordList(S \ {c})

\* MATCH (c:Content) WHERE c.embedding IS NULL RETURN elementId(c), c.chunk
UnembeddedRecords(G) == RecordList({c \in G.contents : c.embedding = {}})

\* the write that stores the vector nowhere
SetEmbeddingNowhere(G, id, vector) == G

\* MATCH (c) WHERE elementId(c) = $id SET c.embedding = $embedding
\* (only Content nodes carry the property in this model)
SetEmbedding(G, id, vector) ==
    [G EXCEPT !.contents =
       {IF c.id = id THEN [c EXCEPT !.embedding = {vector}] ELSE c : c \in @}]

BackfillIdle == UNCHANGED <<pc, nrows, idx, row, chunk_size, overlap, out, hist, ct, sr>>

\* lines 73-79 and 96-97: the service starts and queries the fragments
\* without an embedding; with none it goes on to the index
BackfillQuery ==
    /\ bf.pc \in {"idle", "ready"}
    /\ bf.passes < MaxPasses
    /\ LET records == UnembeddedRecords(graph)
       IN  bf' = [pc |-> IF records = <<>> THEN "index" ELSE "loop",
                  records |-> records, i |-> 0, passes |-> bf.passes + 1,
                  clean |-> TRUE, quiet |-> TRUE, failed |-> {},
                  index |-> "none"]
    /\ UNCHANGED graph
    /\ BackfillIdle

\* the except clause leaving the for loop (break in place of going on)
EmbedErrorBreaks(record) ==
    bf' = [bf EXCEPT !.pc = "index", !.clean = FALSE, !.failed = @ \cup {record.id}]

\* lines 94-95: the except clause: print the node id, go on with the loop
EmbedError(record) ==
    bf' = [bf EXCEPT !.i = @ + 1, !.clean = FALSE, !.failed = @ \cup {record.id}]

\* lines 80-95: one iteration: embed the text, write the vector; a raise of
\* either is printed and the loop goes on
BackfillEmbed ==
    /\ bf.pc = "loop"
    /\ bf.i < Len(bf.records)
    /\ LET record == bf.records[bf.i + 1]
       IN  \/ \E dim \in EmbedDims :
                /\ graph' = SetEmbedding(graph, record.id, Vector(record.text, dim))
                /\ bf' = [bf EXCEPT !.i = @ + 1]
           \/ /\ UNCHANGED graph
              /\ EmbedError(record)
    /\ BackfillIdle

\* the for loop is exhausted
BackfillEnd ==
    /\ bf.pc = "loop"
    /\ bf.i = Len(bf.records)
    /\ bf' = [bf EXCEPT !.pc = "index"]
    /\ UNCHANGED graph
    /\ BackfillIdle

\* how create_vector_index may end: it returns (the statement is CREATE
\* VECTOR INDEX IF NOT EXISTS, so an index that exists is no error), or it
\* raises for another reason
IndexOutcomes == {"ok", "error"}

\* lines 99-112: create_vector_index; a raise is printed and the function
\* goes on to build the retrievers and return them
CreateVectorIndex ==
    /\ bf.pc = "index"
    /\ \E outcome \in IndexOutcomes :
          bf' = [bf EXCEPT !.pc = "ready", !.index = outcome]
    /\ UNCHANGED graph
    /\ BackfillIdle

BackfillNext ==
    \/ BackfillQuery
    \/ BackfillEmbed
    \/ BackfillEnd
    \/ CreateVectorIndex

\* the rows and parameters of the ingest that runs beside the service
RagRows == {[article_id |-> <<"A1">>, title |-> "T1", url |-> "U1",
             published_date |-> "D1", content |-> b, source |-> NaN,
             category |-> ""] : b \in {<<"a", "b", " ", "a">>, <<"b">>}}

InitRag ==
    /\ graph = SeedGraph
    /\ pc = "clear"
    /\ nrows \in 0..MaxRows
    /\ idx = 0
    /\ row = NoRow
    /\ chunk_size = 3
    /\ overlap = 1
    /\ out = <<>>
    /\ hist = HistInit
    /\ bf = BfInit
    /\ ct = CtInit
    /\ sr = SrInit

NextRag ==
    \/ ClearDatabase
    \/ CreateConstraints
    \/ NextRowFrom(RagRows)
    \/ LoopEnd
    \/ ArticleStep
    \/ ContentStep
    \/ MediaStep
    \/ CategoryStep
    \/ BackfillNext

SpecRag == InitRag /\ [][NextRag]_vars

-----------------------------------------------------------------------------
(* A stand-alone call of chunk_text on every small input *)

Texts == {NaNText} \cup UNION {[1..n -> Chars] : n \in 0..MaxLen}

InitChunk ==
    /\ graph = EmptyGraph
    /\ pc = "idle"
    /\ nrows = 0
    /\ idx = 0
    /\ row = NoRow
    /\ chunk_size = DefaultChunkSize
    /\ overlap = DefaultOverlap
    /\ out = <<>>
    /\ hist = HistInit
    /\ bf = BfInit
    /\ sr = SrInit
    /\ \E t \in Texts, size \in 1..MaxChunk, ov \in 0..MaxChunk :
          ct = [text |-> t, chunk_size |-> size, overlap |-> ov, called |-> FALSE,
                result |-> [raised |-> FALSE, chunks |-> <<>>]]

CallChunkText ==
    /\ ~ ct.called
    /\ ct' = [ct EXCEPT !.called = TRUE,
                        !.result = chunk_text(ct.text, ct.chunk_size, ct.overlap)]
    /\ UNCHANGED <<graph, pc, nrows, idx, row, chunk_size, overlap, out, hist, bf, sr>>

NextChunk == CallChunkText

SpecChunk == InitChunk /\ [][NextChunk]_vars

-----------------------------------------------------------------------------
(* Shapes of the graph the claims speak of *)

Rels(G, type) == {r \in G.rels : r.type = type}
Incoming(G, type, id) == {r \in Rels(G, type) : r.to = id}
ContentsOf(G, article_id) == {c \in G.contents : c.article_id = article_id}

\* ceil(a / b) for b > 0
CeilDiv(a, b) == (a + b - 1) \div b

\* the window starts of chunk_text over a body, for chunk_size > overlap
Starts(text, size, ov) == RangeFrom(0, Len(text), size - ov)

BuildRunning == pc \in {"loop", "article", "content", "media", "category", "done"}

-----------------------------------------------------------------------------
(* C1: from every graph at which the ingest of a row begins, running the    *)
(* four upserts of the row twice leaves the same nodes, properties and      *)
(* relationships as running them once; and the graph the loop leaves after  *)
(* a row whose steps all committed is not changed by the row's upserts.     *)
C1_IngestIdempotent ==
    /\ pc = "article" =>
          LET G1 == IngestRow(graph, row, chunk_size, overlap)
          IN  IngestRow(G1, row, chunk_size, overlap) = G1
    /\ (pc = "loop" /\ hist.last /= NoRow) =>
          IngestRow(graph, hist.last, chunk_size, overlap) = graph

\* a row with content, publisher and category was committed twice in a row
C1_Witness ==
    /\ pc = "loop"
    /\ hist.repeats
    /\ HasContent(hist.last)
    /\ graph.contents /= {} /\ graph.media /= {} /\ graph.categories /= {}
    /\ IngestRow(graph, hist.last, chunk_size, overlap) = graph

\* the Content node has exactly one incoming HAS_CHUNK relationship, and it
\* starts at an Article whose article_id is the Content's article_id
OneParent(G, c) ==
    /\ Cardinality(Incoming(G, "HAS_CHUNK", c.id)) = 1
    /\ \A r \in Incoming(G, "HAS_CHUNK", c.id) :
         \E a \in ArticleNodes(G, c.article_id) : r.from = a.id

(* C2 as claimed: when the batch is done every Content node has exactly one *)
(* incoming HAS_CHUNK edge, from the Article of its article_id, and its     *)
(* chunk_index is a position of the chunk sequence last written for that    *)
(* Article.                                                                 *)
C2_PositionInCurrentSequence ==
    pc = "done" =>
        \A c \in graph.contents :
            /\ OneParent(graph, c)
            /\ c.content_id = ContentId(c.article_id, c.chunk_index)
            /\ c.chunk_index < Len(hist.art[c.article_id].chunks)

(* What the code does keep of the fragments: when the batch is done every   *)
(* Content node has exactly one incoming HAS_CHUNK edge, from the Article   *)
(* of its article_id; its chunk_index is the index of its content_id; the   *)
(* indices of an Article's Content nodes have no gap below it; and a node   *)
(* whose index lies within the chunk sequence last written for the Article  *)
(* holds that chunk.                                                        *)
StoredFragmentsIndexed ==
    pc = "done" =>
        \A c \in graph.contents :
            /\ OneParent(graph, c)
            /\ c.content_id = ContentId(c.article_id, c.chunk_index)
            /\ \A j \in 0..(c.chunk_index - 1) :
                 \E d \in ContentsOf(graph, c.article_id) : d.chunk_index = j
            /\ c.chunk_index < Len(hist.art[c.article_id].chunks) =>
                 c.chunk = hist.art[c.article_id].chunks[c.chunk_index + 1]

\* the batch is done and a Content node of an earlier, longer body is left
\* beyond the chunk sequence last written for its Article
StaleFragmentLeft ==
    /\ pc = "done"
    /\ \E c \in graph.contents :
         /\ hist.art[c.article_id].commits = 2
         /\ c.chunk_index >= Len(hist.art[c.article_id].chunks)

(* C3: every article_id whose upsert committed at least once has exactly one *)
(* Article node, carrying the title, url and published_date of the most      *)
(* recent committed upsert.                                                  *)
C3_LastWriteWins ==
    \A i \in ArticleIds :
        hist.art[i].upserts > 0 =>
            /\ Cardinality(ArticleNodes(graph, i)) = 1
            /\ \A a \in ArticleNodes(graph, i) :
                 /\ a.title = hist.art[i].data.title
                 /\ a.url = hist.art[i].data.url
                 /\ a.published_date = hist.art[i].data.published_date

\* an article upserted twice, the second time with another title
C3_Witness ==
    \E i \in ArticleIds :
        /\ hist.art[i].upserts = 2
        /\ hist.art[i].prev.title /= hist.art[i].data.title
        /\ \E a \in graph.articles : a.article_id = i /\ a.title = hist.art[i].data.title

(* C4: in every reachable state Media and Category names and content_ids    *)
(* are unique, and no two relationships share type, start and end node.     *)
C4_Deduplicated ==
    /\ \A m1, m2 \in graph.media : m1.name = m2.name => m1 = m2
    /\ \A c1, c2 \in graph.categories : c1.name = c2.name => c1 = c2
    /\ \A c1, c2 \in graph.contents : c1.content_id = c2.content_id => c1 = c2
    /\ \A r1, r2 \in graph.rels :
         (r1.type = r2.type /\ r1.from = r2.from /\ r1.to = r2.to) => r1 = r2

\* two different articles published by the same Media node and belonging to
\* the same Category node
C4_Witness ==
    \E a1, a2 \in graph.articles :
        /\ a1.article_id /= a2.article_id
        /\ \E m \in graph.media :
             \A a \in {a1, a2} :
                \E r \in Rels(graph, "PUBLISHED") : r.from = m.id /\ r.to = a.id
        /\ \E c \in graph.categories :
             \A a \in {a1, a2} :
                \E r \in Rels(graph, "BELONGS_TO") : r.from = a.id /\ r.to = c.id

\* the step taken is the except clause of the loop
RowRaised ==
    /\ Len(out') = Len(out) + 1
    /\ out'[Len(out')].msg = "row_error"

(* C5: a step of a row that raises is caught: control returns to the loop   *)
(* head with the row counter, the batch and the parameters as a committed   *)
(* row leaves them, and nothing of the graph undone; at the loop head the   *)
(* next row is read whenever one is left and the loop ends when none is;    *)
(* rows are read one by one, none twice; and the loop ends only after every *)
(* row was read.                                                            *)
C5_BatchContinues ==
    /\ [][RowRaised => (pc' = "loop" /\ UNCHANGED <<graph, idx, nrows, chunk_size, overlap>>)]_vars
    /\ [][idx' = idx \/ (idx' = idx + 1 /\ pc = "loop")]_vars
    /\ []((pc = "loop" /\ idx < nrows) => ENABLED NextRow)
    /\ []((pc = "loop" /\ idx = nrows) => ENABLED LoopEnd)
    /\ [](pc = "done" => idx = nrows)

\* the batch is done, its first row raised, and its last row committed fully
C5_Witness ==
    /\ pc = "done"
    /\ nrows >= 2
    /\ \E k \in DOMAIN out : out[k].msg = "row_error" /\ out[k].idx = 0
    /\ hist.last /= NoRow
    /\ HasContent(hist.last)
    /\ \E a \in graph.articles : a.article_id = hist.last.article_id

(* C6 as claimed: when the batch is done the program has reported a final   *)
(* count of succeeded and skipped rows.                                     *)
C6_ReportsFinalCount ==
    pc = "done" => \E k \in DOMAIN out : out[k].msg = "final_count"

\* every window of the body holds a character that is not whitespace
NoBlankWindow(body, size, ov) ==
    \A k \in DOMAIN Starts(body, size, ov) :
        Strip(Slice(body, Starts(body, size, ov)[k], Starts(body, size, ov)[k] + size)) /= <<>>

(* C9: an article whose content was written once, from a body of length L   *)
(* without a whitespace-only window, under chunk_size c > overlap o, has    *)
(* exactly ceil(L / (c - o)) Content nodes, with content_id                  *)
(* '{article_id}_chunk_{i}' and chunk_index i for i = 0..n-1 and one         *)
(* HAS_CHUNK edge from the Article to each; L = 1200, c = 500, o = 50 gives *)
(* the indices 0, 1, 2.                                                     *)
C9_FragmentCount ==
    \A i \in ArticleIds :
        LET h == hist.art[i]
            n == CeilDiv(Len(h.body), chunk_size - overlap)
        IN  (h.commits = 1 /\ chunk_size > overlap
               /\ NoBlankWindow(h.body, chunk_size, overlap)) =>
                /\ Cardinality(ContentsOf(graph, i)) = n
                /\ \A k \in 0..(n - 1) :
                     \E c \in ContentsOf(graph, i) :
                        /\ c.content_id = ContentId(i, k)
                        /\ c.chunk_index = k
                        /\ Cardinality({r \in Incoming(graph, "HAS_CHUNK", c.id) :
                                          \E a \in ArticleNodes(graph, i) : r.from = a.id}) = 1
                /\ (Len(h.body) = 1200 /\ chunk_size = 500 /\ overlap = 50) =>
                     {c.chunk_index : c \in ContentsOf(graph, i)} = {0, 1, 2}

\* the 1200-character body was written once under the defaults: 3 fragments
C9_Witness ==
    \E i \in ArticleIds :
        /\ hist.art[i].commits = 1
        /\ Len(hist.art[i].body) = 1200
        /\ chunk_size = DefaultChunkSize /\ overlap = DefaultOverlap
        /\ Cardinality(ContentsOf(graph, i)) = 3

-----------------------------------------------------------------------------
(* Claims about chunk_text alone, under SpecChunk *)

\* the fragments joined, each fragment after the first without the overlap
\* it repeats from its predecessor
RECURSIVE JoinBeyondOverlap(_, _)
JoinBeyondOverlap(chunks, ov) ==
    IF chunks = <<>> THEN <<>>
    ELSE Slice(Head(chunks), ov, Len(Head(chunks))) \o JoinBeyondOverlap(Tail(chunks), ov)

Reconstruct(chunks, ov) ==
    IF chunks = <<>> THEN <<>>
    ELSE Head(chunks) \o JoinBeyondOverlap(Tail(chunks), ov)

\* trimming changes no window: none starts or ends with whitespace
NoTrimmedWindow(text, size, ov) ==
    \A k \in DOMAIN Starts(text, size, ov) :
        LET w == Slice(text, Starts(text, size, ov)[k], Starts(text, size, ov)[k] + size)
        IN  Strip(w) = w

ValidCall == ct.called /\ ~ isnaText(ct.text) /\ ct.overlap < ct.chunk_size

(* C7 as claimed: for a non-empty text and chunk_size - overlap <= 0 the    *)
(* call of chunk_text ends with an error, not with a normal result.         *)
C7_FailsFast ==
    (ct.called /\ ~ isnaText(ct.text) /\ ct.text /= <<>>
       /\ ct.chunk_size - ct.overlap <= 0) => ct.result.raised

(* C8 as claimed: for every text and 0 <= overlap < chunk_size the          *)
(* fragments, overlaps dropped, reconstruct the text exactly, and no        *)
(* fragment is empty after trimming.                                        *)
C8_Reconstructs ==
    ValidCall =>
        /\ Reconstruct(ct.result.chunks, ct.overlap) = ct.text
        /\ \A k \in DOMAIN ct.result.chunks : Strip(ct.result.chunks[k]) /= <<>>

(* C8 amended: for every text and 0 <= overlap < chunk_size no fragment is  *)
(* empty after trimming, and when no window of the text starts or ends with *)
(* whitespace the fragments, overlaps dropped, reconstruct the text.        *)
C8_ReconstructsUntrimmed ==
    ValidCall =>
        /\ ~ ct.result.raised
        /\ \A k \in DOMAIN ct.result.chunks : Strip(ct.result.chunks[k]) /= <<>>
        /\ NoTrimmedWindow(ct.text, ct.chunk_size, ct.overlap) =>
             Reconstruct(ct.result.chunks, ct.overlap) = ct.text

\* a text with interior whitespace cut into overlapping windows, none of
\* them trimmed, and reconstructed
C8_Witness ==
    /\ ValidCall
    /\ ct.overlap > 0
    /\ Len(ct.result.chunks) >= 2
    /\ \E k \in DOMAIN ct.text : ct.text[k] \in Whitespace
    /\ NoTrimmedWindow(ct.text, ct.chunk_size, ct.overlap)
    /\ Reconstruct(ct.result.chunks, ct.overlap) = ct.text

-----------------------------------------------------------------------------
(* Claims about the backfill, under SpecRag *)

(* C10: once a backfill pass has gone through its records with no raise of  *)
(* the embedding call or of the write, and no step of an ingest since the   *)
(* pass started, no Content node is without an embedding.                   *)
C10_CleanPassEmbedsAll ==
    (bf.pc \in {"index", "ready"} /\ bf.clean) =>
        \A c \in graph.contents : c.embedding /= {}

\* a pass found several fragments without an embedding and went through
\* them all without a raise
C10_Witness ==
    /\ bf.pc = "index"
    /\ bf.clean
    /\ Len(bf.records) >= 2
    /\ \A k \in DOMAIN bf.records :
         \E c \in graph.contents : c.id = bf.records[k].id /\ c.embedding /= {}

\* the element ids of the Content nodes without an embedding
Unembedded(G) == {c.id : c \in {x \in G.contents : x.embedding = {}}}

\* the element ids a pass selected
Selected(b) == {b.records[k].id : k \in DOMAIN b.records}

(* C11: an iteration of the backfill loop that raises leaves the graph as   *)
(* it is and the loop goes on to the next record; once the pass is through  *)
(* its records, with no ingest step since it started, the fragments left    *)
(* without an embedding are exactly those whose iteration raised; and the   *)
(* next pass selects exactly the fragments without an embedding, so those   *)
(* that raised are selected again and every success takes one fragment out  *)
(* of every later selection.                                                *)
C11_FailureIsolated ==
    /\ [][(bf.pc = "loop" /\ bf'.failed /= bf.failed) =>
            /\ graph' = graph
            /\ bf'.pc = "loop"
            /\ bf'.i = bf.i + 1
            /\ bf'.records = bf.records]_vars
    /\ []((bf.pc \in {"index", "ready"} /\ bf.quiet) =>
            Unembedded(graph) = bf.failed)
    /\ [][(bf.pc \in {"idle", "ready"} /\ bf'.pc \in {"loop", "index"}) =>
            /\ Selected(bf') = Unembedded(graph)
            /\ (bf.quiet => bf.failed \subseteq Selected(bf'))]_vars

\* a pass selected several fragments, the iteration of one raised and it is
\* left without an embedding, another is embedded, and the pass is through
C11_Witness ==
    /\ bf.pc = "index"
    /\ bf.quiet
    /\ bf.failed /= {}
    /\ bf.failed \subseteq Unembedded(graph)
    /\ \E id \in Selected(bf) \ bf.failed :
         \E c \in graph.contents : c.id = id /\ c.embedding /= {}

(* C12: every Content node has no embedding or an embedding whose length    *)
(* is DIMENSION, whatever length of vector the embedding service returns.   *)
C12_FullLength ==
    \A c \in graph.contents : \A v \in c.embedding : v.dim = DIMENSION

(* C13: when create_vector_index fails for a reason other than the index    *)
(* existing already, initialization is not completed: the service does not  *)
(* become ready to search; and when the ingest's clear or constraint        *)
(* transaction fails, the ingest reads no row.                              *)
C13_OtherFailureFatal ==
    /\ bf.index = "error" => bf.pc /= "ready"
    /\ pc = "aborted" => idx = 0

-----------------------------------------------------------------------------
(* The search handler of app.py (lines 326-399).                            *)
(*                                                                         *)
(* A JSON value, as json.loads builds it, is a record tagged by its Python  *)
(* type: None, int, str, list, dict.  The text of a str is a string; the    *)
(* items of a list are a sequence; a dict is a function from its keys.      *)

JNull == [t |-> "null"]
JNum(n) == [t |-> "num", n |-> n]
JStr(s) == [t |-> "str", s |-> s]
JList(l) == [t |-> "list", l |-> l]
JObj(o) == [t |-> "obj", o |-> o]

\* an AttributeError or a TypeError raised by an expression
Raised == [t |-> "raise"]

\* the dict with no key
EmptyDict == [k \in {} |-> JNull]

\* d.get(key, default): AttributeError unless d is a dict
dict_get(d, key, default) ==
    IF d.t /= "obj" THEN Raised
    ELSE IF key \in DOMAIN d.o THEN d.o[key] ELSE default

\* the keys of a dict, as a list of str
RECURSIVE KeyList(_)
KeyList(S) ==
    IF S = {} THEN <<>>
    ELSE LET k == CHOOSE x \in S : TRUE IN <<JStr(k)>> \o KeyList(S \ {k})

\* what `for x in v` iterates over: the items of a list, the characters of
\* a str, the keys of a dict; TypeError for None and int
iter(v) ==
    CASE v.t = "list" -> v
      [] v.t = "str"  -> JList([i \in 1..Len(v.s) |-> JStr(SubSeq(v.s, i, i))])
      [] v.t = "obj"  -> JList(KeyList(DOMAIN v.o))
      [] OTHER        -> Raised

\* str.strip() on a string
RECURSIVE LStripLine(_)
LStripLine(s) ==
    IF Len(s) > 0 /\ SubSeq(s, 1, 1) \in Whitespace
    THEN LStripLine(SubSeq(s, 2, Len(s))) ELSE s

RECURSIVE RStripLine(_)
RStripLine(s) ==
    IF Len(s) > 0 /\ SubSeq(s, Len(s), Len(s)) \in Whitespace
    THEN RStripLine(SubSeq(s, 1, Len(s) - 1)) ELSE s

StripLine(s) == LStripLine(RStripLine(s))

\* s.startswith(prefix)
startswith(s, prefix) ==
    Len(s) >= Len(prefix) /\ SubSeq(s, 1, Len(prefix)) = prefix

\* s.split('\n')
RECURSIVE split(_)
split(s) ==
    IF \E i \in 1..Len(s) : SubSeq(s, i, i) = "\n"
    THEN LET i == CHOOSE j \in 1..Len(s) :
                    /\ SubSeq(s, j, j) = "\n"
                    /\ \A k \in 1..(j - 1) : SubSeq(s, k, k) /= "\n"
         IN  <<SubSeq(s, 1, i - 1)>> \o split(SubSeq(s, i + 1, Len(s)))
    ELSE <<s>>

\* '\n'.join(lines)
RECURSIVE join(_)
join(lines) ==
    IF lines = <<>> THEN ""
    ELSE IF Len(lines) = 1 THEN lines[1]
    ELSE lines[1] \o "\n" \o join(Tail(lines))

\* the marker of a markdown code fence, three backticks; a string of the
\* model cannot hold a backtick, so ~ stands for it
Fence == "~~~"

\* lines 337-348: strip the answer, and take a markdown code fence off it
strip_code_block(answer) ==
    LET answer_text == StripLine(answer)
    IN  IF startswith(answer_text, Fence)
        THEN LET lines0 == split(answer_text)
                 lines1 == IF startswith(lines0[1], Fence) THEN Tail(lines0) ELSE lines0
                 lines2 == IF lines1 /= <<>> /\ StripLine(lines1[Len(lines1)]) = Fence
                           THEN SubSeq(lines1, 1, Len(lines1) - 1) ELSE lines1
             IN  StripLine(join(lines2))
        ELSE answer_text

\* the text that stands for a JSON document in an answer; which document
\* it is comes with the answer
Payload == "{json}"

\* json.loads(answer_text): the document if the text is one, else a raise
json_loads(answer_text, doc) ==
    IF answer_text = Payload THEN doc ELSE Raised

\* lines 401-411: the icon of a category (the names stand for the Korean
\* category names and the emoji of the source); a key that cannot be
\* hashed raises TypeError
icons == [politics |-> "capitol", economy |-> "briefcase", society |-> "people",
          culture |-> "masks", science |-> "laptop", world |-> "globe"]

DefaultIcon == "newspaper"

get_icon_for_category(category) ==
    IF category.t \in {"list", "obj"} THEN Raised
    ELSE IF category.t = "str" /\ category.s \in DOMAIN icons
         THEN JStr(icons[category.s])
         ELSE JStr(DefaultIcon)

\* lines 375-384: the entry appended to sources for one source_data
source_entry(source_id, source_data) ==
    IF source_data.t /= "obj" THEN Raised
    ELSE LET icon == get_icon_for_category(dict_get(source_data, "category", JStr("")))
         IN  IF icon.t = "raise" THEN Raised
             ELSE [t |-> "source",
                   id |-> source_id,
                   shortName |-> dict_get(source_data, "media", JStr("unknown")),
                   title |-> dict_get(source_data, "title", JStr("")),
                   category |-> dict_get(source_data, "category", JStr("etc")),
                   date |-> dict_get(source_data, "date", JStr("")),
                   url |-> dict_get(source_data, "url", JStr("")),
                   summary |-> dict_get(source_data, "summary", JStr("")),
                   icon |-> icon]

\* lines 374-386: the inner loop over the sources of one section
RECURSIVE SourceLoop(_, _, _, _, _)
SourceLoop(items, k, source_id, sources, source_ids) ==
    IF k > Len(items)
    THEN [raised |-> FALSE, source_id |-> source_id, sources |-> sources,
          source_ids |-> source_ids]
    ELSE LET entry == source_entry(source_id, items[k])
         IN  IF entry.t = "raise"
             THEN [raised |-> TRUE, source_id |-> source_id, sources |-> sources,
                   source_ids |-> source_ids]
             ELSE SourceLoop(items, k + 1, source_id + 1, Append(sources, entry),
                             Append(source_ids, source_id))

\* the section that keeps its sources key (the pop left out)
SetSourceIdsKeepSources(section, source_ids) ==
    JObj([key \in DOMAIN section.o \cup {"sourceIds"} |->
            IF key = "sourceIds"
            THEN JList([i \in DOMAIN source_ids |-> JNum(source_ids[i])])
            ELSE section.o[key]])

\* lines 388-390: section["sourceIds"] = source_ids; section.pop("sources", None)
SetSourceIds(section, source_ids) ==
    JObj([key \in (DOMAIN section.o \cup {"sourceIds"}) \ {"sources"} |->
            IF key = "sourceIds"
            THEN JList([i \in DOMAIN source_ids |-> JNum(source_ids[i])])
            ELSE section.o[key]])

\* lines 372-390: the outer loop over the sections
RECURSIVE SectionLoop(_, _, _, _, _)
SectionLoop(items, k, source_id, sources, done) ==
    IF k > Len(items)
    THEN [raised |-> FALSE, sections |-> done, sources |-> sources]
    ELSE LET section == items[k]
             listed == dict_get(section, "sources", JList(<<>>))
             it == IF listed.t = "raise" THEN Raised ELSE iter(listed)
         IN  IF it.t = "raise"
             THEN [raised |-> TRUE, sections |-> done, sources |-> sources]
             ELSE LET r == SourceLoop(it.l, 1, source_id, sources, <<>>)
                  IN  IF r.raised
                      THEN [raised |-> TRUE, sections |-> done, sources |-> sources]
                      ELSE SectionLoop(items, k + 1, r.source_id, r.sources,
                                       Append(done, SetSourceIds(section, r.source_ids)))

\* lines 368-395: the conversion of the parsed result, and the dict returned;
\* its sections are parsed_result.get("sections", []) once more: the list
\* whose items the loop has changed, or the value that is no list
convert(parsed_result) ==
    LET listed == dict_get(parsed_result, "sections", JList(<<>>))
        it == IF listed.t = "raise" THEN Raised ELSE iter(listed)
    IN  IF it.t = "raise"
        THEN [raised |-> TRUE, sections |-> JNull, sources |-> <<>>]
        ELSE LET r == SectionLoop(it.l, 1, 1, <<>>, <<>>)
             IN  IF r.raised
                 THEN [raised |-> TRUE, sections |-> JNull, sources |-> <<>>]
                 ELSE [raised |-> FALSE,
                       sections |-> IF listed.t = "list" THEN JList(r.sections)
                                    ELSE listed,
                       sources |-> r.sources]

\* lines 40-56 and line 326 (response_model=QueryResponse): what the handler
\* returns is validated against the response model, a value that does
\* not fit is an internal server error; the response keeps of a section its
\* title, content and sourceIds
ValidSection(section) ==
    /\ section.t = "obj"
    /\ {"title", "content", "sourceIds"} \subseteq DOMAIN section.o
    /\ section.o["title"].t = "str"
    /\ section.o["content"].t = "str"
    /\ section.o["sourceIds"].t = "list"
    /\ \A i \in DOMAIN section.o["sourceIds"].l : section.o["sourceIds"].l[i].t = "num"

ValidSource(source) ==
    \A f \in {"shortName", "title", "category", "date", "url", "summary", "icon"} :
        source[f].t = "str"

HttpError(status) ==
    [kind |-> "http_error", status |-> status, returned |-> JNull,
     sections |-> <<>>, sources |-> <<>>]

QueryResponse(returned, sources) ==
    IF /\ returned.t = "list"
       /\ \A i \in DOMAIN returned.l : ValidSection(returned.l[i])
       /\ \A i \in DOMAIN sources : ValidSource(sources[i])
    THEN [kind |-> "response", status |-> 200, returned |-> returned,
          sections |-> [i \in DOMAIN returned.l |->
                          [title |-> returned.l[i].o["title"].s,
                           content |-> returned.l[i].o["content"].s,
                           sourceIds |-> [j \in DOMAIN returned.l[i].o["sourceIds"].l |->
                                            returned.l[i].o["sourceIds"].l[j].n]]],
          sources |-> [i \in DOMAIN sources |->
                         [f \in DOMAIN sources[i] \ {"t"} |->
                            IF f = "id" THEN sources[i].id ELSE sources[i][f].s]]]
    ELSE HttpError(500)

\* lines 356-366: the result used when json.loads raises
FallbackTitle == "search result"

fallback(answer) ==
    JObj([sections |-> JList(<<JObj([title |-> JStr(FallbackTitle),
                                     content |-> JStr(answer),
                                     sources |-> JList(<<>>)])>>)])

\* lines 350-366: json.loads in its try, the fallback in its except
json_or_fallback(answer, doc) ==
    LET parsed == json_loads(strip_code_block(answer), doc)
    IN  IF parsed.t = "raise" THEN fallback(answer) ELSE parsed

\* lines 326-399: the handler; rag: the global set by initialize_graphrag;
\* raises: rag.search raises; answer, doc: result.answer and the JSON
\* document its payload holds
search(rag, raises, answer, doc) ==
    IF ~ rag THEN HttpError(503)
    ELSE IF raises THEN HttpError(500)
    ELSE LET r == convert(json_or_fallback(answer, doc))
         IN  IF r.raised THEN HttpError(500)
             ELSE QueryResponse(r.sections, r.sources)

-----------------------------------------------------------------------------
(* A request to app.search on every small answer *)

MaxSections == 2

FullSource == JObj([media |-> JStr("M1"), title |-> JStr("T1"),
                    category |-> JStr("politics"), date |-> JStr("D1"),
                    url |-> JStr("U1"), summary |-> JStr("S1")])
PartSource == JObj([title |-> JStr("T2")])

\* the values of a section's sources key: lists of dicts, lists with an
\* item that is no dict, and values that are no list
GoodSourceLists == {JList(<<>>), JList(<<FullSource>>), JList(<<FullSource, PartSource>>),
                    JList(<<JObj(EmptyDict)>>)}
OddSourceLists == {JList(<<FullSource, JStr("x")>>), JList(<<JNull>>),
                   JStr(""), JStr("ab"), JNull, JNum(1), JObj(EmptyDict), FullSource}

Titled(sources) == JObj([title |-> JStr("T"), content |-> JStr("C"), sources |-> sources])

\* the items of the sections list
SectionPool ==
    {Titled(l) : l \in GoodSourceLists \cup OddSourceLists}
    \cup {JObj([title |-> JStr("T"), content |-> JStr("C")]),
          JObj([title |-> JStr("T"), sources |-> JList(<<FullSource>>)]),
          JObj([content |-> JStr("C"), sources |-> JList(<<>>)]),
          JObj([sources |-> JList(<<PartSource>>)]),
          JObj([title |-> JStr("T"), content |-> JStr("C"),
                sources |-> JList(<<FullSource>>), sourceIds |-> JList(<<JNum(7)>>)]),
          JStr("s"), JNull, JList(<<>>)}

SectionLists == UNION {[1..n -> SectionPool] : n \in 0..MaxSections}

\* the JSON documents an answer may hold
Docs ==
    {JObj([sections |-> JList(l)]) : l \in SectionLists}
    \cup {JObj([sections |-> v]) :
            v \in {JStr(""), JStr("ab"), JNull, JNum(1), JObj(EmptyDict), Titled(JList(<<>>))}}
    \cup {JObj(EmptyDict), JObj([answer |-> JStr("a")]),
          JList(<<>>), JList(<<Titled(JList(<<>>))>>), JStr("a"), JNum(1), JNull}

\* answers that hold a document: bare, fenced, with white space around
JsonAnswers == {Payload, "~~~json\n{json}\n~~~", " {json}\n", "~~~\n{json}\n~~~ "}

\* answers that are no JSON text
ProseAnswers == {"hello", "", "~~~json\nhello\n~~~", "hello {json}", "~~~json {json}",
                 "{json}\n~~~"}

InitSearch ==
    /\ graph = EmptyGraph
    /\ pc = "idle"
    /\ nrows = 0
    /\ idx = 0
    /\ row = NoRow
    /\ chunk_size = DefaultChunkSize
    /\ overlap = DefaultOverlap
    /\ out = <<>>
    /\ hist = HistInit
    /\ bf = BfInit
    /\ ct = CtInit
    /\ \/ \E a \in JsonAnswers, d \in Docs :
            sr = [SrInit EXCEPT !.rag = TRUE, !.answer = a, !.doc = d]
       \/ \E a \in ProseAnswers :
            sr = [SrInit EXCEPT !.rag = TRUE, !.answer = a]
       \/ \E rag \in BOOLEAN, a \in {"hello", Payload} :
            sr = [SrInit EXCEPT !.rag = rag, !.raises = TRUE, !.answer = a,
                                !.doc = JObj([sections |-> JList(<<>>)])]
       \/ \E a \in {"hello", Payload} :
            sr = [SrInit EXCEPT !.answer = a, !.doc = JObj([sections |-> JList(<<>>)])]

\* a request is served
Search ==
    /\ sr.pc = "idle"
    /\ sr' = [sr EXCEPT !.pc = "done",
                        !.outcome = search(sr.rag, sr.raises, sr.answer, sr.doc)]
    /\ UNCHANGED <<graph, pc, nrows, idx, row, chunk_size, overlap, out, hist, bf, ct>>

NextSearch == Search

SpecSearch == InitSearch /\ [][NextSearch]_vars

-----------------------------------------------------------------------------
(* Claims about search, under SpecSearch *)

\* the request got an answer from rag.search
Answered == sr.pc = "done" /\ sr.rag /\ ~ sr.raises

\* a section of the required shape: a dict with title and content whose
\* sources, if any, is a list
ShapedSection(section) ==
    /\ section.t = "obj"
    /\ {"title", "content"} \subseteq DOMAIN section.o
    /\ "sources" \in DOMAIN section.o => section.o["sources"].t = "list"

\* the answer does not match the required shape: no JSON text, no dict, a
\* dict whose sections is no list of dicts, or a section out of shape
Malformed(answer, doc) ==
    LET parsed == json_loads(strip_code_block(answer), doc)
    IN  \/ parsed.t /= "obj"
        \/ "sections" \notin DOMAIN parsed.o
        \/ parsed.o["sections"].t /= "list"
        \/ \E i \in DOMAIN parsed.o["sections"].l :
              ~ ShapedSection(parsed.o["sections"].l[i])

\* the fallback response: one section holding the raw answer, no source
IsFallback(outcome, answer) ==
    /\ outcome.kind = "response"
    /\ Len(outcome.sections) = 1
    /\ outcome.sections[1].content = answer
    /\ outcome.sections[1].sourceIds = <<>>
    /\ outcome.sources = <<>>

(* C14: for every answer that does not match the required shape, search     *)
(* does not raise and returns the fallback response: one section whose      *)
(* content is the raw answer, with no sourceIds, and no sources.            *)
C14_MalformedFallsBack ==
    (Answered /\ Malformed(sr.answer, sr.doc)) => IsFallback(sr.outcome, sr.answer)

(* C15: every request to search ends in a response of the shape             *)
(* {sections, sources}, never in an error.                                  *)
C15_AlwaysResponds ==
    sr.pc = "done" => sr.outcome.kind = "response"

\* the places (section, position) of the response where sourceIds holds id
Places(outcome, id) ==
    {p \in UNION {{<<s, j>> : j \in DOMAIN outcome.sections[s].sourceIds} :
                     s \in DOMAIN outcome.sections} :
        outcome.sections[p[1]].sourceIds[p[2]] = id}

(* C16: in every response of search the ids of sources are 1..n in list     *)
(* order, every value of a section's sourceIds is the id of a source, each  *)
(* source id is in the sourceIds of exactly one section, and no section     *)
(* returned has a sources key.                                              *)
C16_SourceIdsConsistent ==
    (sr.pc = "done" /\ sr.outcome.kind = "response") =>
        /\ \A i \in DOMAIN sr.outcome.sources : sr.outcome.sources[i].id = i
        /\ \A s \in DOMAIN sr.outcome.sections :
             \A j \in DOMAIN sr.outcome.sections[s].sourceIds :
                sr.outcome.sections[s].sourceIds[j] \in DOMAIN sr.outcome.sources
        /\ \A i \in DOMAIN sr.outcome.sources : Cardinality(Places(sr.outcome, i)) = 1
        /\ \A s \in DOMAIN sr.outcome.returned.l :
             "sources" \notin DOMAIN sr.outcome.returned.l[s].o

\* a response with several sections, the later ones with sources of their
\* own, three sources or more in all
C16_Witness ==
    /\ sr.pc = "done"
    /\ sr.outcome.kind = "response"
    /\ Len(sr.outcome.sections) >= 2
    /\ Len(sr.outcome.sources) >= 3
    /\ sr.outcome.sections[1].sourceIds /= <<>>
    /\ sr.outcome.sections[2].sourceIds /= <<>>

-----------------------------------------------------------------------------
(* Claims about what the operations leave alone, under SpecRag *)

\* the nodes and relationships of the database, by kind and element id
Elements(G) ==
    {<<"Article", x.id>> : x \in G.articles} \cup
    {<<"Content", x.id>> : x \in G.contents} \cup
    {<<"Media", x.id>> : x \in G.media} \cup
    {<<"Category", x.id>> : x \in G.categories} \cup
    {<<x.type, x.from, x.to, x.id>> : x \in G.rels}

\* the step is the reset of main: clear_database committed
IsReset == pc = "clear" /\ pc' = "constraints"

(* C17: a step that takes a node or a relationship out of the database is   *)
(* the reset of main; the upserts and the backfill only add; the reset      *)
(* comes once, before the constraints are created and before any row is     *)
(* read or upserted; a step of build_graph_from_dataframe or of a backfill  *)
(* pass is never the reset.                                                 *)
C17_OnlyResetRemoves ==
    /\ [][(~ (Elements(graph) \subseteq Elements(graph'))) => IsReset]_vars
    /\ [][pc /= "clear" => pc' /= "clear"]_vars
    /\ [](pc = "clear" =>
            /\ idx = 0
            /\ out = <<>>
            /\ \A a \in ArticleIds : hist.art[a].upserts = 0)

\* the reset removed the nodes that were there, the ingest then upserted an
\* article with several fragments, and a backfill wrote an embedding
C17_Witness ==
    /\ pc = "done"
    /\ \E k \in DOMAIN out : out[k].msg = "db_init"
    /\ Cardinality(graph.contents) >= 2
    /\ \E c \in graph.contents : c.embedding /= {}
    /\ bf.pc = "ready"

-----------------------------------------------------------------------------
(* Claims about the transactions of the ingest, under Spec *)

(* C18: the mutations of one article are committed as one unit: whenever a  *)
(* row is between two of its steps, the database, as a concurrent reader    *)
(* or a failure of the next step finds it, holds either no Article of the   *)
(* row or everything the row writes (Article, Content nodes and HAS_CHUNK   *)
(* edges, PUBLISHED edge, BELONGS_TO edge).                                 *)
C18_ArticleAtomic ==
    (row /= NoRow /\ pc \in {"content", "media", "category"}) =>
        \/ ArticleNodes(graph, row.article_id) = {}
        \/ IngestRow(graph, row, chunk_size, overlap) = graph

-----------------------------------------------------------------------------
(* Claims about what upserts and backfill leave of an embedding, under SpecRag *)

(* C19: no step but the reset changes or clears an embedding a Content node *)
(* has: not the upsert that overwrites its chunk, not a later backfill      *)
(* pass; and a node gets an embedding only in a backfill step, only if the  *)
(* pass selected it and it has none.  So a fragment whose chunk a           *)
(* re-ingest overwrote keeps the embedding of its old text.                 *)
C19_EmbeddingKept ==
    /\ [][\A c \in graph.contents :
            c.embedding /= {} =>
               \/ IsReset
               \/ \E d \in graph'.contents :
                     /\ d.id = c.id
                     /\ d.content_id = c.content_id
                     /\ d.embedding = c.embedding]_vars
    /\ [][\A d \in graph'.contents :
            d.embedding /= {} =>
               \/ \E c \in graph.contents : c.id = d.id /\ c.embedding = d.embedding
               \/ /\ bf.pc = "loop"
                  /\ bf'.i = bf.i + 1
                  /\ d.id \in Selected(bf)
                  /\ \E c \in graph.contents : c.id = d.id /\ c.embedding = {}]_vars

\* a fragment was embedded, a re-ingest of its article with another body
\* overwrote its chunk, a second backfill pass has run to its end, and the
\* fragment still has the embedding of the old text
C19_Witness ==
    /\ pc = "done"
    /\ bf.pc = "ready"
    /\ bf.passes = 2
    /\ \E c \in graph.contents : \E v \in c.embedding : v.of /= c.chunk

====
